---- MODULE Spec2Model ----
(***************************************************************************)
(* Model of the batch translation engine of ai-excel-translator:           *)
(*   - GeminiTranslator (translators.py): translate_batch, the cache,      *)
(*     _call_translation_api with its retry loop and its recursive split;  *)
(*   - DocxProcessor / ExcelProcessor create_batches and estimate_tokens;  *)
(*   - ExcelProcessor._process_cell_batches (writing translations back);   *)
(*   - initialize_app (app.py): a new engine for every Translate click.    *)
(*                                                                         *)
(* A text is a sequence of symbols.  "a" is one letter, "V" stands for a   *)
(* run of 1596 letters and "W" for a run of 1592 (so that realistic token  *)
(* costs around the limit of 400 are expressible), "nl" is a newline and   *)
(* "tab" a tab character.                                                  *)
(* None is the sequence <<"None">>, which is no text of the alphabet.      *)
(* List positions are 1-based here and 0-based in the source.  The sleeps  *)
(* of RETRY_DELAY and QUOTA_EXHAUST_ERROR_DELAY are counted; the           *)
(* sleep(REQUEST_DELAY) after every parsed answer changes no state and is  *)
(* not recorded.  A suspended frame never reads its loop variable again    *)
(* (line 99 returns), so stack keeps only its texts and first_half.        *)
(***************************************************************************)
EXTENDS Integers, Sequences, FiniteSets, TLC

\* ---------------------------------------------------------------- constants
MAX_TOKENS_PER_REQUEST == 400
MAX_RETRIES == 10
CHARS_PER_TOKEN == 4
QUOTA_EXHAUST_ERROR == "429 Resource has been exhausted"

\* the text of an error of the remote that is no quota exhaustion
TRANSIENT_ERROR == "503 Service Unavailable"

\* ------------------------------------------------------------------- bounds
MaxTexts == 2
MaxDepth == 2
MaxUnits == 3
MaxCells == 3

\* ------------------------------------------------------------------ alphabet
\* "V" is a run of 4 * 399 letters: docx cost 399, excel cost 400
BlockLen == CHARS_PER_TOKEN * 399

SymLen(c) ==
    IF c = "V" THEN BlockLen
    ELSE IF c = "W" THEN BlockLen - CHARS_PER_TOKEN
    ELSE 1

IsSpace(c) == c \in {"nl", "tab"}

RECURSIVE TextLen(_)
TextLen(t) == IF t = <<>> THEN 0 ELSE SymLen(Head(t)) + TextLen(Tail(t))

None == <<"None">>

Langs == {"French"}

\* the texts a caller passes to translate_batch
RawTexts == { <<"a">>, <<"a", "nl">>, <<"V", "nl", "nl", "V">> }

RECURSIVE SeqsUpTo(_, _)
SeqsUpTo(S, n) ==
    IF n = 0 THEN { <<>> }
    ELSE LET shorter == SeqsUpTo(S, n - 1)
         IN  shorter \cup { Append(s, x) : s \in { q \in shorter : Len(q) = n - 1 }, x \in S }

\* ------------------------------------------------------- _preprocess_text
\* re.sub(r"c+", "c", text): every run of the symbol c becomes one c
RECURSIVE Collapse(_, _)
Collapse(t, c) ==
    IF Len(t) < 2 THEN t
    ELSE IF Head(t) = c /\ Head(Tail(t)) = c THEN Collapse(Tail(t), c)
         ELSE <<Head(t)>> \o Collapse(Tail(t), c)

RECURSIVE LStrip(_)
LStrip(t) == IF t # <<>> /\ IsSpace(Head(t)) THEN LStrip(Tail(t)) ELSE t

RECURSIVE RStrip(_)
RStrip(t) ==
    IF t # <<>> /\ IsSpace(t[Len(t)]) THEN RStrip(SubSeq(t, 1, Len(t) - 1)) ELSE t

Strip(t) == RStrip(LStrip(t))

_preprocess_text(text) == Strip(Collapse(Collapse(text, "nl"), "tab"))

\* ------------------------------------------------------------ remote service
\* the two translations the remote may give for a text x
T(x) == <<"T:">> \o x
U(x) == <<"U:">> \o x

RECURSIVE SameLengthResponses(_)
SameLengthResponses(req) ==
    IF req = <<>> THEN { <<>> }
    ELSE { <<h>> \o r : h \in {T(Head(req)), U(Head(req))},
                        r \in SameLengthResponses(Tail(req)) }

Tagged(req) == [j \in 1..Len(req) |-> T(req[j])]

\* arrays of the wrong length: one element short, one element long
WrongLengthResponses(req) ==
    (IF req = <<>> THEN {} ELSE { SubSeq(Tagged(req), 1, Len(req) - 1) })
    \cup { Append(Tagged(req), T(<<>>)) }

\* --------------------------------------------------------- estimate_tokens
\* constants.py: TRANSLATION_DELIMITER = "|//|"
TRANSLATION_DELIMITER == <<"|", "/", "/", "|">>

\* DocxProcessor.estimate_tokens: math.ceil(len(text) / CHARS_PER_TOKEN)
DocxEstimateTokens(text) ==
    IF CHARS_PER_TOKEN > 0
    THEN (TextLen(text) + CHARS_PER_TOKEN - 1) \div CHARS_PER_TOKEN
    ELSE TextLen(text)

\* ExcelProcessor.estimate_tokens: len(text) // CHARS_PER_TOKEN
ExcelEstimateTokens(text) == TextLen(text) \div CHARS_PER_TOKEN

\* ExcelBatchCost without the delimiter
ExcelBatchCostOfTextAlone(text) == ExcelEstimateTokens(text)

\* the cost ExcelProcessor.create_batches gives a text (line 46)
ExcelBatchCost(text) == ExcelEstimateTokens(text \o TRANSLATION_DELIMITER)

\* ---------------------------------------------------------- create_batches
\* the local state of create_batches
BatchState(bs, cb, n) == [batches |-> bs, current_batch |-> cb, current_tokens |-> n]

\* DocxIteration that closes the batch when the total reaches the limit
DocxIterationRejectsLimit(st, unit) ==
    LET token_count == DocxEstimateTokens(unit[2])
        closed == IF st.current_tokens + token_count >= MAX_TOKENS_PER_REQUEST
                     /\ st.current_batch # <<>>
                  THEN BatchState(Append(st.batches, st.current_batch), <<>>, 0)
                  ELSE st
    IN  BatchState(closed.batches, Append(closed.current_batch, unit),
                   closed.current_tokens + token_count)

\* DocxIteration with the limit tested against the running total alone
DocxIterationTotalOnly(st, unit) ==
    LET token_count == DocxEstimateTokens(unit[2])
        closed == IF st.current_tokens > MAX_TOKENS_PER_REQUEST
                     /\ st.current_batch # <<>>
                  THEN BatchState(Append(st.batches, st.current_batch), <<>>, 0)
                  ELSE st
    IN  BatchState(closed.batches, Append(closed.current_batch, unit),
                   closed.current_tokens + token_count)

\* DocxProcessor.create_batches: one iteration of the for loop, on (index, text)
DocxIteration(st, unit) ==
    LET token_count == DocxEstimateTokens(unit[2])
        closed == IF st.current_tokens + token_count > MAX_TOKENS_PER_REQUEST
                     /\ st.current_batch # <<>>
                  THEN BatchState(Append(st.batches, st.current_batch), <<>>, 0)
                  ELSE st
    IN  BatchState(closed.batches, Append(closed.current_batch, unit),
                   closed.current_tokens + token_count)

\* ExcelIteration that starts the new batch without appending the full one
ExcelIterationDropsBatch(st, text) ==
    LET text_tokens == ExcelBatchCost(text)
    IN  IF st.current_tokens + text_tokens > MAX_TOKENS_PER_REQUEST
        THEN BatchState(st.batches, <<text>>, text_tokens)
        ELSE BatchState(st.batches, Append(st.current_batch, text),
                        st.current_tokens + text_tokens)

\* ExcelProcessor.create_batches: one iteration of the for loop, on text
ExcelIteration(st, text) ==
    LET text_tokens == ExcelBatchCost(text)
    IN  IF st.current_tokens + text_tokens > MAX_TOKENS_PER_REQUEST
        THEN BatchState(IF st.current_batch # <<>>
                        THEN Append(st.batches, st.current_batch)
                        ELSE st.batches,
                        <<text>>, text_tokens)
        ELSE BatchState(st.batches, Append(st.current_batch, text),
                        st.current_tokens + text_tokens)

\* both: if current_batch: batches.append(current_batch)
FlushBatch(st) ==
    IF st.current_batch # <<>>
    THEN Append(st.batches, st.current_batch)
    ELSE st.batches

\* the texts create_batches is given, of 1, 3, 1592, 1596 and 1601 characters:
\* docx costs 1, 1, 398, 399 and 401, excel costs 1, 1, 399, 400 and 401
BatchTexts ==
    { <<"a">>, <<"a", "a", "a">>, <<"W">>, <<"V">>, <<"V", "a", "a", "a", "a", "a">> }

ExcelInputs == SeqsUpTo(BatchTexts, MaxUnits)

\* items_with_indices: (original_index, text); the index is the position
DocxInputs == { [i \in 1..Len(s) |-> <<i, s[i]>>] : s \in ExcelInputs }

\* ExcelProcessor.create_batches as a whole: the for loop from state st on
\* the texts left, then the flush of line 56
RECURSIVE ExcelLoop(_, _)
ExcelLoop(st, ts) ==
    IF ts = <<>> THEN st ELSE ExcelLoop(ExcelIteration(st, Head(ts)), Tail(ts))

ExcelCreateBatches(ts) == FlushBatch(ExcelLoop(BatchState(<<>>, <<>>, 0), ts))

\* ---------------------------------------------------- _process_cell_batches
\* the cells of a sheet, and the row-major order of sheet.iter_rows()
Grid == { <<row, col>> : row \in 1..2, col \in 1..2 }

Before(p, q) == p[1] < q[1] \/ (p[1] = q[1] /\ p[2] < q[2])

\* the values of the translatable cells: excel costs 1, 399 and 400
CellTexts == { <<"a">>, <<"W">>, <<"V">> }

\* cell_positions as _collect_translatable_cells builds it: the positions of
\* the translatable cells in the order of iteration
CellPositionLists ==
    { ps \in SeqsUpTo(Grid, MaxCells) :
          \A i, j \in 1..Len(ps) : i < j => Before(ps[i], ps[j]) }

\* what translate_batch can return for one text: a translation of the
\* remote, the fallback text, or the empty string of a degraded answer
TranslationsOf(text) == { T(text), U(text), _preprocess_text(text), <<>> }

\* the lists translate_batch can return for a batch: one entry per text
TranslateBatchResults(batch) ==
    { res \in [1..Len(batch) -> UNION { TranslationsOf(batch[j]) : j \in 1..Len(batch) }] :
          \A j \in 1..Len(batch) : res[j] \in TranslationsOf(batch[j]) }

\* CellIndex that forgets the cells of the batches before
CellIndexNoOffset(processed, j) == j

\* line 160: idx = cells_processed + j (positions counted from 1 here)
CellIndex(processed, j) == processed + j

\* lines 159 to 163: the loop over enumerate(translations) from entry j on;
\* sw holds the sheet and the number of assignments to each cell
RECURSIVE WriteCells(_, _, _, _, _)
WriteCells(sw, trs, j, processed, positions) ==
    IF j > Len(trs) THEN sw
    ELSE LET idx == CellIndex(processed, j)
         IN  IF idx <= Len(positions)
             THEN WriteCells([sheet |-> [sw.sheet EXCEPT ![positions[idx]] = trs[j]],
                              writes |-> [sw.writes EXCEPT ![positions[idx]] = @ + 1]],
                             trs, j + 1, processed, positions)
             ELSE WriteCells(sw, trs, j + 1, processed, positions)

\* -------------------------------------------------------------------- state
VARIABLES
    cache,             \* self.translation_cache: (text, lang) -> translation
    pc,                \* "idle", "api", "ret", "done", "raised"
    input,             \* the list the caller passed to translate_batch
    lang,              \* target_lang
    texts,             \* local texts of translate_batch after line 35
    translations,      \* local translations of translate_batch
    uncached_indices,  \* positions (1-based) of the cache misses
    uncached_texts,    \* the cache misses
    stack,             \* suspended _call_translation_api frames (in a split)
    cur,               \* texts of the running _call_translation_api frame
    attempt,           \* loop variable of the running frame
    invocations,       \* generate_content calls made by the running frame
    retrySleeps,       \* sleep(RETRY_DELAY) calls made by the running frame
    quotaSleeps,       \* sleep(QUOTA_EXHAUST_ERROR_DELAY) calls of the frame
    retval,            \* value returned by the frame that just returned
    retKind,           \* which return statement produced retval
    how,               \* how the last translate_batch call ended
    remoteCalled,      \* the current translate_batch call invoked the remote
    remoteTagged,      \* every remote answer so far was the tagged array
    prev,              \* result of the preceding identical call, if any
    lastError,         \* message of the latest exception of the running frame
    stored,            \* keys stored in a cache by any engine of the process
    remoteSplits,      \* in this call the remote answered every request of two
                       \* or more texts with a wrong-length array and every
                       \* request of one text with the tagged array
    proc,              \* batcher: "docx" or "excel"
    items,             \* batcher: the input list of create_batches
    pos,               \* batcher: number of items consumed by the for loop
    batches,           \* batcher: local batches
    current_batch,     \* batcher: local current_batch
    current_tokens,    \* batcher: local current_token_count / current_tokens
    bpc,               \* batcher: "idle", "loop", "done"
    cpc,               \* sheet: "idle", "loop", "done", "raised"
    cells_to_process,  \* sheet: the values of the translatable cells
    cell_positions,    \* sheet: their (row, column) positions
    cell_batches,      \* sheet: batches of _process_cell_batches
    processed_batch_count, \* sheet: batches translated so far
    cells_processed,   \* sheet: local cells_processed
    sheet,             \* sheet: the value of every cell
    writes,            \* sheet: how often each cell was assigned
    returned           \* sheet: what translate_batch returned, batch after batch

engineVars == <<cache, pc, input, lang, texts, translations, uncached_indices,
                uncached_texts, stack, cur, attempt, invocations, retrySleeps,
                quotaSleeps, retval, retKind, how, remoteCalled, remoteTagged, prev,
                lastError, stored, remoteSplits>>

batchVars == <<proc, items, pos, batches, current_batch, current_tokens, bpc>>

cellVars == <<cpc, cells_to_process, cell_positions, cell_batches,
              processed_batch_count, cells_processed, sheet, writes, returned>>

vars == <<engineVars, batchVars, cellVars>>

\* a _call_translation_api return value: a list, or None
RetList(l) == [none |-> FALSE, list |-> l]
RetNone == [none |-> TRUE, list |-> <<>>]

\* Python truthiness of a return value: None and [] are falsy
Truthy(r) == ~r.none /\ r.list # <<>>

NoPrev == [repeat |-> FALSE, result |-> <<>>]

\* ------------------------------------------------------------------- cache
EmptyCache == [k \in {} |-> <<>>]

\* CacheHas that finds no key
CacheHasNever(c, text, l) == FALSE

CacheHas(c, text, l) == <<text, l>> \in DOMAIN c

CacheGet(c, text, l) == c[<<text, l>>]

\* CachePut that stores nothing
CachePutNothing(c, text, l, v) == c

CachePut(c, text, l, v) ==
    [k \in DOMAIN c \cup {<<text, l>>} |-> IF k = <<text, l>> THEN v ELSE c[k]]

\* ------------------------------------------------ _get_cached_translations
\* the for loop from position i on; acc holds translations, uncached_indices
\* and uncached_texts
RECURSIVE CachedLoop(_, _, _, _, _)
CachedLoop(c, ts, l, i, acc) ==
    IF i > Len(ts) THEN acc
    ELSE IF CacheHas(c, ts[i], l)
         THEN CachedLoop(c, ts, l, i + 1,
                  [acc EXCEPT !.translations[i] = CacheGet(c, ts[i], l)])
         ELSE CachedLoop(c, ts, l, i + 1,
                  [acc EXCEPT !.uncached_indices = Append(@, i),
                              !.uncached_texts = Append(@, ts[i])])

\* _get_cached_translations that looks nothing up
GetCachedAllMisses(c, ts, l, trs) ==
    [translations |-> trs, uncached_indices |-> [i \in 1..Len(ts) |-> i],
     uncached_texts |-> ts]

_get_cached_translations(c, ts, l, trs) ==
    CachedLoop(c, ts, l, 1,
        [translations |-> trs, uncached_indices |-> <<>>, uncached_texts |-> <<>>])

\* ---------------------------------------- translate_batch, lines 45 to 51
\* the for loop over new_translations from position i on
RECURSIVE StoreLoop(_, _, _, _, _, _, _)
StoreLoop(new, uidx, utxt, l, i, c, trs) ==
    IF i > Len(new) THEN [cache |-> c, translations |-> trs]
    ELSE StoreLoop(new, uidx, utxt, l, i + 1,
             CachePut(c, utxt[i], l, new[i]),
             [trs EXCEPT ![uidx[i]] = new[i]])

\* StoreTranslations writing slot i instead of slot uncached_indices[i]
RECURSIVE StoreByPositionLoop(_, _, _, _, _, _, _)
StoreByPositionLoop(new, uidx, utxt, l, i, c, trs) ==
    IF i > Len(new) THEN [cache |-> c, translations |-> trs]
    ELSE StoreByPositionLoop(new, uidx, utxt, l, i + 1,
             CachePut(c, utxt[i], l, new[i]),
             [trs EXCEPT ![i] = new[i]])

StoreByPosition(new, uidx, utxt, l, c, trs) ==
    StoreByPositionLoop(new, uidx, utxt, l, 1, c, trs)

StoreTranslations(new, uidx, utxt, l, c, trs) ==
    StoreLoop(new, uidx, utxt, l, 1, c, trs)

\* ---------------------------------------------- _handle_failed_translations
RECURSIVE FailedLoop(_, _, _, _)
FailedLoop(uidx, ts, trs, k) ==
    IF k > Len(uidx) THEN trs
    ELSE FailedLoop(uidx, ts,
             IF trs[uidx[k]] = None THEN [trs EXCEPT ![uidx[k]] = ts[uidx[k]]] ELSE trs,
             k + 1)

_handle_failed_translations(uidx, ts, trs) == FailedLoop(uidx, ts, trs, 1)

\* --------------------------------------------------------- translate_batch
Inputs == SeqsUpTo(RawTexts, MaxTexts)

\* a frame of _call_translation_api starts on the texts ts
StartFrame(ts) ==
    /\ cur' = ts
    /\ attempt' = 0
    /\ invocations' = 0
    /\ retrySleeps' = 0
    /\ quotaSleeps' = 0
    /\ lastError' = "none"
    /\ retval' = RetNone
    /\ retKind' = "none"

NoFrame ==
    /\ cur' = <<>>
    /\ attempt' = 0
    /\ invocations' = 0
    /\ retrySleeps' = 0
    /\ quotaSleeps' = 0
    /\ lastError' = "none"

\* translate_batch up to the call of _call_translation_api (lines 29 to 42)
Call(ts, l) ==
    /\ pc \in {"idle", "done"}
    /\ input' = ts
    /\ lang' = l
    /\ prev' = IF pc = "done" /\ how = "success" /\ input = ts /\ lang = l
               THEN [repeat |-> TRUE, result |-> translations]
               ELSE NoPrev
    /\ remoteCalled' = FALSE
    /\ stack' = <<>>
    /\ remoteSplits' = TRUE
    /\ UNCHANGED <<cache, remoteTagged, stored, batchVars, cellVars>>
    /\ IF ts = <<>>
       THEN /\ texts' = <<>>
            /\ translations' = <<>>
            /\ uncached_indices' = <<>>
            /\ uncached_texts' = <<>>
            /\ pc' = "done"
            /\ how' = "empty"
            /\ NoFrame
            /\ retval' = RetNone
            /\ retKind' = "none"
       ELSE LET pre == [i \in 1..Len(ts) |-> _preprocess_text(ts[i])]
                got == _get_cached_translations(cache, pre, l,
                           [i \in 1..Len(ts) |-> None])
            IN  /\ texts' = pre
                /\ translations' = got.translations
                /\ uncached_indices' = got.uncached_indices
                /\ uncached_texts' = got.uncached_texts
                /\ IF got.uncached_texts # <<>>
                   THEN /\ pc' = "api"
                        /\ how' = "running"
                        /\ StartFrame(got.uncached_texts)
                   ELSE /\ pc' = "done"
                        /\ how' = "cached"
                        /\ NoFrame
                        /\ retval' = RetNone
                        /\ retKind' = "none"

\* ---------------------------------------------------- _call_translation_api
\* line 86: len(new_translations) != len(texts)
CountMismatch(new_translations, ts) == Len(new_translations) # Len(ts)

\* line 96: midpoint = len(texts) // 2
Midpoint(ts) == Len(ts) \div 2

\* line 97: texts[:midpoint]
FirstHalfTexts(ts) == SubSeq(ts, 1, Midpoint(ts))

\* line 98: texts[midpoint:]
SecondHalfTexts(ts) == SubSeq(ts, Midpoint(ts) + 1, Len(ts))

\* IsQuotaError that takes every error for a quota exhaustion
IsQuotaErrorAlways(msg) == TRUE

\* line 108: QUOTA_EXHAUST_ERROR in str(e)
IsQuotaError(msg) == msg = QUOTA_EXHAUST_ERROR

\* LastAttempt compared with MAX_RETRIES itself
LastAttemptOffByOne(a) == a = MAX_RETRIES

\* line 110: attempt == MAX_RETRIES - 1
LastAttempt(a) == a = MAX_RETRIES - 1

\* line 102: [""] * len(texts)
EmptyStrings(ts) == [j \in 1..Len(ts) |-> <<>>]

\* Plus with the halves in the wrong order
PlusReversed(first_half, second_half) ==
    IF first_half.none \/ second_half.none
    THEN [raised |-> TRUE, value |-> RetNone]
    ELSE [raised |-> FALSE, value |-> RetList(second_half.list \o first_half.list)]

\* line 99: first_half + second_half; None + list, list + None and
\* None + None raise TypeError
Plus(first_half, second_half) ==
    IF first_half.none \/ second_half.none
    THEN [raised |-> TRUE, value |-> RetNone]
    ELSE [raised |-> FALSE, value |-> RetList(first_half.list \o second_half.list)]

\* the running frame executes a return statement
Return(value, kind) ==
    /\ pc' = "ret"
    /\ retval' = value
    /\ retKind' = kind
    /\ UNCHANGED <<cur, attempt, stack>>

\* lines 73 to 99: the remote answers with a JSON array
ApiResponse(resp) ==
    /\ pc = "api"
    /\ attempt < MAX_RETRIES
    /\ remoteCalled' = TRUE
    /\ remoteTagged' = (remoteTagged /\ resp = Tagged(cur))
    /\ remoteSplits' = (remoteSplits /\ IF Len(cur) >= 2
                                         THEN Len(resp) # Len(cur)
                                         ELSE Len(cur) = 1 /\ resp = Tagged(cur))
    /\ UNCHANGED <<cache, input, lang, texts, translations, uncached_indices,
                   uncached_texts, how, prev, stored, batchVars, cellVars>>
    /\ IF CountMismatch(resp, cur)
       THEN \* ValueError("Translation count mismatch"): line 97
            /\ Len(stack) < MaxDepth
            /\ stack' = Append(stack, [texts |-> cur, at |-> "first",
                                       first_half |-> RetNone])
            /\ pc' = "api"
            /\ cur' = FirstHalfTexts(cur)
            /\ attempt' = 0
            /\ invocations' = 0
            /\ retrySleeps' = 0
            /\ quotaSleeps' = 0
            /\ lastError' = "none"
            /\ UNCHANGED <<retval, retKind>>
       ELSE \* line 92
            /\ Return(RetList(resp), "success")
            /\ invocations' = invocations + 1
            /\ UNCHANGED <<retrySleeps, quotaSleeps, lastError>>

\* lines 84, 100 to 102: the body is no JSON (json.JSONDecodeError is a
\* ValueError whose text is not the count mismatch)
ApiBadJson ==
    /\ pc = "api"
    /\ attempt < MAX_RETRIES
    /\ invocations' = invocations + 1
    /\ remoteCalled' = TRUE
    /\ remoteTagged' = FALSE
    /\ remoteSplits' = FALSE
    /\ Return(RetList(EmptyStrings(cur)), "degraded")
    /\ UNCHANGED <<cache, input, lang, texts, translations, uncached_indices,
                   uncached_texts, how, prev, stored, retrySleeps, quotaSleeps,
                   lastError, batchVars, cellVars>>

\* lines 103 to 116: generate_content raises; msg is the text of the error
ApiError(msg) ==
    /\ pc = "api"
    /\ attempt < MAX_RETRIES
    /\ invocations' = invocations + 1
    /\ remoteCalled' = TRUE
    /\ remoteTagged' = FALSE
    /\ remoteSplits' = FALSE
    /\ quotaSleeps' = IF IsQuotaError(msg) THEN quotaSleeps + 1 ELSE quotaSleeps
    /\ lastError' = msg
    /\ UNCHANGED <<cache, input, lang, texts, translations, uncached_indices,
                   uncached_texts, how, prev, stored, batchVars, cellVars>>
    /\ IF LastAttempt(attempt)
       THEN \* line 114
            /\ Return(RetNone, "exhausted")
            /\ UNCHANGED retrySleeps
       ELSE /\ retrySleeps' = retrySleeps + 1
            /\ IF attempt + 1 < MAX_RETRIES
               THEN /\ attempt' = attempt + 1
                    /\ UNCHANGED <<pc, retval, retKind, cur, stack>>
               ELSE \* the for loop ends: line 116
                    /\ pc' = "ret"
                    /\ retval' = RetNone
                    /\ retKind' = "loop_end"
                    /\ attempt' = attempt + 1
                    /\ UNCHANGED <<cur, stack>>

\* line 97 returns: first_half is bound and line 98 calls on the second half
ReturnFirstHalf ==
    /\ pc = "ret"
    /\ stack # <<>>
    /\ stack[Len(stack)].at = "first"
    /\ stack' = [stack EXCEPT ![Len(stack)] =
                    [@ EXCEPT !.at = "second", !.first_half = retval]]
    /\ pc' = "api"
    /\ StartFrame(SecondHalfTexts(stack[Len(stack)].texts))
    /\ UNCHANGED <<cache, input, lang, texts, translations, uncached_indices,
                   uncached_texts, how, remoteCalled, remoteTagged, prev, stored,
                   remoteSplits, batchVars, cellVars>>

\* line 98 returns: line 99 adds the halves and returns, or raises TypeError,
\* which no enclosing handler catches (every caller is itself inside its
\* except ValueError block, and translate_batch has no try)
ReturnSecondHalf ==
    /\ pc = "ret"
    /\ stack # <<>>
    /\ stack[Len(stack)].at = "second"
    /\ LET top == stack[Len(stack)]
           sum == Plus(top.first_half, retval)
       IN  IF sum.raised
           THEN /\ pc' = "raised"
                /\ how' = "raised"
                /\ stack' = <<>>
                /\ NoFrame
                /\ retval' = RetNone
                /\ retKind' = "none"
           ELSE /\ pc' = "ret"
                /\ how' = how
                /\ stack' = SubSeq(stack, 1, Len(stack) - 1)
                /\ cur' = top.texts
                /\ attempt' = 0
                /\ invocations' = 0
                /\ retrySleeps' = 0
                /\ quotaSleeps' = 0
                /\ lastError' = "none"
                /\ retval' = sum.value
                /\ retKind' = "concat"
    /\ UNCHANGED <<cache, input, lang, texts, translations, uncached_indices,
                   uncached_texts, remoteCalled, remoteTagged, prev, stored,
                   remoteSplits, batchVars, cellVars>>

\* translate_batch, lines 43 to 55: the outermost _call_translation_api returned
Finish ==
    /\ pc = "ret"
    /\ stack = <<>>
    /\ LET new_translations == retval
       IN  IF Truthy(new_translations)
           THEN LET st == StoreTranslations(new_translations.list, uncached_indices,
                                            uncached_texts, lang, cache, translations)
                IN  /\ cache' = st.cache
                    /\ translations' = st.translations
                    /\ stored' = stored \cup DOMAIN st.cache
           ELSE /\ cache' = cache
                /\ stored' = stored
                /\ translations' =
                       _handle_failed_translations(uncached_indices, texts, translations)
    /\ pc' = "done"
    /\ how' = retKind
    /\ NoFrame
    /\ retval' = RetNone
    /\ retKind' = "none"
    /\ UNCHANGED <<input, lang, texts, uncached_indices, uncached_texts, stack,
                   remoteCalled, remoteTagged, prev, remoteSplits, batchVars, cellVars>>

\* ---------------------------------------------------------- specification
Init ==
    /\ cache = EmptyCache
    /\ pc = "idle"
    /\ input = <<>>
    /\ lang = "French"
    /\ texts = <<>>
    /\ translations = <<>>
    /\ uncached_indices = <<>>
    /\ uncached_texts = <<>>
    /\ stack = <<>>
    /\ cur = <<>>
    /\ attempt = 0
    /\ invocations = 0
    /\ retrySleeps = 0
    /\ quotaSleeps = 0
    /\ retval = RetNone
    /\ retKind = "none"
    /\ how = "none"
    /\ remoteCalled = FALSE
    /\ remoteTagged = TRUE
    /\ prev = NoPrev
    /\ lastError = "none"
    /\ stored = {}
    /\ remoteSplits = TRUE
    /\ proc = "docx"
    /\ items = <<>>
    /\ pos = 0
    /\ batches = <<>>
    /\ current_batch = <<>>
    /\ current_tokens = 0
    /\ bpc = "idle"
    /\ cpc = "idle"
    /\ cells_to_process = <<>>
    /\ cell_positions = <<>>
    /\ cell_batches = <<>>
    /\ processed_batch_count = 0
    /\ cells_processed = 0
    /\ sheet = [p \in Grid |-> <<>>]
    /\ writes = [p \in Grid |-> 0]
    /\ returned = <<>>

\* the answers of the remote to the request of the running frame
Responses == SameLengthResponses(cur) \cup WrongLengthResponses(cur)

\* Repeated translate_batch calls on one engine.  The errors the remote raises
\* here carry no quota signature; SpecClient adds it (it changes nothing but
\* the sleeps of the retry loop).
Next ==
    \/ \E ts \in Inputs, l \in Langs : Call(ts, l)
    \/ \E resp \in Responses : ApiResponse(resp)
    \/ ApiBadJson
    \/ ApiError(TRANSIENT_ERROR)
    \/ ReturnFirstHalf
    \/ ReturnSecondHalf
    \/ Finish

Spec == Init /\ [][Next]_vars

\* One translate_batch call on a new engine, the remote raising both kinds
\* of error.
FirstCall(ts, l) == pc = "idle" /\ Call(ts, l)

NextClient ==
    \/ \E ts \in Inputs, l \in Langs : FirstCall(ts, l)
    \/ \E resp \in Responses : ApiResponse(resp)
    \/ ApiBadJson
    \/ \E msg \in {QUOTA_EXHAUST_ERROR, TRANSIENT_ERROR} : ApiError(msg)
    \/ ReturnFirstHalf
    \/ ReturnSecondHalf
    \/ Finish

SpecClient == Init /\ [][NextClient]_vars

\* app.py, lines 128 and 129: a click on Translate, after the document before
\* it was translated or its translation raised, calls initialize_app, which
\* builds a new GeminiTranslator; its __init__ starts with an empty cache
InitializeApp ==
    /\ pc \in {"done", "raised"}
    /\ cache' = EmptyCache
    /\ pc' = "idle"
    /\ input' = <<>>
    /\ texts' = <<>>
    /\ translations' = <<>>
    /\ uncached_indices' = <<>>
    /\ uncached_texts' = <<>>
    /\ stack' = <<>>
    /\ NoFrame
    /\ retval' = RetNone
    /\ retKind' = "none"
    /\ how' = "none"
    /\ remoteCalled' = FALSE
    /\ prev' = NoPrev
    /\ UNCHANGED <<lang, remoteTagged, stored, remoteSplits, batchVars, cellVars>>

\* The engines one process builds, one after the other, each translating
\* with its own cache.
NextProcess ==
    \/ \E ts \in Inputs, l \in Langs : Call(ts, l)
    \/ \E resp \in Responses : ApiResponse(resp)
    \/ ApiBadJson
    \/ ApiError(TRANSIENT_ERROR)
    \/ ReturnFirstHalf
    \/ ReturnSecondHalf
    \/ Finish
    \/ InitializeApp

SpecProcess == Init /\ [][NextProcess]_vars

\* ------------------------------------------ _process_cell_batches, stepwise
\* lines 153 to 156, on the cells _collect_translatable_cells collected
\* from one sheet
CellsStart(cells, positions) ==
    /\ cpc = "idle"
    /\ Len(cells) = Len(positions)
    /\ cells_to_process' = cells
    /\ cell_positions' = positions
    /\ cell_batches' = ExcelCreateBatches(cells)
    /\ cells_processed' = 0
    /\ processed_batch_count' = 0
    /\ sheet' = [p \in Grid |->
                    IF \E i \in 1..Len(positions) : positions[i] = p
                    THEN cells[CHOOSE i \in 1..Len(positions) : positions[i] = p]
                    ELSE <<>>]
    /\ writes' = [p \in Grid |-> 0]
    /\ returned' = <<>>
    /\ cpc' = "loop"
    /\ UNCHANGED <<engineVars, batchVars>>

\* lines 157 to 165: one iteration of the loop over batches; translate_batch
\* returned the list translations
CellBatchTranslated(trs) ==
    /\ cpc = "loop"
    /\ processed_batch_count < Len(cell_batches)
    /\ LET batch == cell_batches[processed_batch_count + 1]
           sw == WriteCells([sheet |-> sheet, writes |-> writes], trs, 1,
                            cells_processed, cell_positions)
       IN  /\ trs \in TranslateBatchResults(batch)
           /\ sheet' = sw.sheet
           /\ writes' = sw.writes
           /\ cells_processed' = cells_processed + Len(batch)
    /\ processed_batch_count' = processed_batch_count + 1
    /\ returned' = returned \o trs
    /\ UNCHANGED <<cpc, cells_to_process, cell_positions, cell_batches,
                   engineVars, batchVars>>

\* line 158: translate_batch raised (translators.py line 99); the exception
\* leaves _process_cell_batches
CellBatchRaised ==
    /\ cpc = "loop"
    /\ processed_batch_count < Len(cell_batches)
    /\ cpc' = "raised"
    /\ UNCHANGED <<cells_to_process, cell_positions, cell_batches,
                   processed_batch_count, cells_processed, sheet, writes,
                   returned, engineVars, batchVars>>

\* line 173: the loop is over, cells_processed is returned
CellsReturn ==
    /\ cpc = "loop"
    /\ processed_batch_count = Len(cell_batches)
    /\ cpc' = "done"
    /\ UNCHANGED <<cells_to_process, cell_positions, cell_batches,
                   processed_batch_count, cells_processed, sheet, writes,
                   returned, engineVars, batchVars>>

NextCells ==
    \/ \E positions \in CellPositionLists :
           \E cells \in [1..Len(positions) -> CellTexts] : CellsStart(cells, positions)
    \/ \E trs \in TranslateBatchResults(
                      IF cpc = "loop" /\ processed_batch_count < Len(cell_batches)
                      THEN cell_batches[processed_batch_count + 1] ELSE <<>>) :
           CellBatchTranslated(trs)
    \/ CellBatchRaised
    \/ CellsReturn

SpecCells == Init /\ [][NextCells]_vars

\* ------------------------------------------------- create_batches, stepwise
BatchStart(p, its) ==
    /\ bpc \in {"idle", "done"}
    /\ proc' = p
    /\ items' = its
    /\ pos' = 0
    /\ batches' = <<>>
    /\ current_batch' = <<>>
    /\ current_tokens' = 0
    /\ bpc' = "loop"
    /\ UNCHANGED <<engineVars, cellVars>>

DocxStart(its) == BatchStart("docx", its)

ExcelStart(its) == BatchStart("excel", its)

BatchAssign(st) ==
    /\ batches' = st.batches
    /\ current_batch' = st.current_batch
    /\ current_tokens' = st.current_tokens

DocxStep ==
    /\ bpc = "loop"
    /\ proc = "docx"
    /\ pos < Len(items)
    /\ BatchAssign(DocxIteration(BatchState(batches, current_batch, current_tokens),
                                 items[pos + 1]))
    /\ pos' = pos + 1
    /\ UNCHANGED <<proc, items, bpc, engineVars, cellVars>>

ExcelStep ==
    /\ bpc = "loop"
    /\ proc = "excel"
    /\ pos < Len(items)
    /\ BatchAssign(ExcelIteration(BatchState(batches, current_batch, current_tokens),
                                  items[pos + 1]))
    /\ pos' = pos + 1
    /\ UNCHANGED <<proc, items, bpc, engineVars, cellVars>>

\* the for loop is over: the last batch is flushed and batches is returned
BatchReturn ==
    /\ bpc = "loop"
    /\ pos = Len(items)
    /\ batches' = FlushBatch(BatchState(batches, current_batch, current_tokens))
    /\ bpc' = "done"
    /\ UNCHANGED <<proc, items, pos, current_batch, current_tokens, engineVars, cellVars>>

NextBatch ==
    \/ \E its \in DocxInputs : DocxStart(its)
    \/ \E its \in ExcelInputs : ExcelStart(its)
    \/ DocxStep
    \/ ExcelStep
    \/ BatchReturn

SpecBatch == Init /\ [][NextBatch]_vars

\* ------------------------------------------------------------------ claims
UnitCost(u) == IF proc = "docx" THEN DocxEstimateTokens(u[2]) ELSE ExcelBatchCost(u)

RECURSIVE BatchCost(_)
BatchCost(b) == IF b = <<>> THEN 0 ELSE UnitCost(Head(b)) + BatchCost(Tail(b))

RECURSIVE Flatten(_)
Flatten(bs) == IF bs = <<>> THEN <<>> ELSE Head(bs) \o Flatten(Tail(bs))

RECURSIVE RequestCost(_)
RequestCost(req) ==
    IF req = <<>> THEN 0 ELSE DocxEstimateTokens(Head(req)) + RequestCost(Tail(req))

\* the last position of the input whose normalized text is that of position i
LastOccurrence(i) ==
    CHOOSE j \in 1..Len(texts) :
        /\ texts[j] = texts[i]
        /\ \A k \in (j + 1)..Len(texts) : texts[k] # texts[i]

\* C1: whenever translate_batch is over, for a non-empty input and any
\* behaviour of the remote, it has returned a list as long as its input.
C1_Cardinality ==
    (pc \in {"done", "raised"} /\ input # <<>>)
        => (pc = "done" /\ Len(translations) = Len(input))

\* C2: translate_batch never raises to its caller.
C2_NeverRaises == pc # "raised"

\* C3: every recursive sub-call of the split is on strictly fewer texts than
\* the call that made it.
C3_SplitShrinks ==
    (pc = "api" /\ stack # <<>>) => Len(cur) < Len(stack[Len(stack)].texts)

\* C4: when the remote has answered every request with the same-length array
\* of tags T(x), the i-th result of translate_batch is T(normalize(input[i])),
\* whichever texts were cache hits.
C4_OrderInvariant ==
    (pc = "done" /\ remoteTagged)
        => /\ Len(translations) = Len(input)
           /\ \A i \in 1..Len(input) :
                  translations[i] = T(_preprocess_text(input[i]))

C4_Witness ==
    /\ pc = "done"
    /\ remoteTagged
    /\ how = "success"
    /\ Len(input) = 2
    /\ uncached_indices = <<2>>
    /\ texts[1] # texts[2]

\* C5: from an empty cache, with a remote that raises a transient error on
\* every invocation, translate_batch returns exactly the texts it was given,
\* and no slot is None.
C5_FallbackIsInput ==
    (pc = "done" /\ how = "exhausted" /\ DOMAIN cache = {})
        => /\ translations = input
           /\ \A i \in 1..Len(translations) : translations[i] # None

\* C6 as stated: after a call that got its translations from a same-length
\* answer of the remote, the same call again invokes no remote and returns an
\* equal list.
C6_CacheIdempotence ==
    (pc = "done" /\ prev.repeat)
        => (~remoteCalled /\ translations = prev.result)

\* C6 as amended: the second call invokes no remote and returns, at each
\* position, what the first call returned at the last position holding the
\* same normalized text.
C6_CacheIdempotenceLast ==
    (pc = "done" /\ prev.repeat)
        => /\ ~remoteCalled
           /\ Len(translations) = Len(prev.result)
           /\ \A i \in 1..Len(translations) :
                  translations[i] = prev.result[LastOccurrence(i)]

C6_Witness ==
    /\ pc = "done"
    /\ prev.repeat
    /\ Len(input) = 2
    /\ texts[1] = texts[2]
    /\ prev.result[1] # prev.result[2]

\* C7: every request sent to the remote carries one text, or texts whose
\* summed estimated cost is at most MAX_TOKENS_PER_REQUEST.
C7_RequestBounded ==
    (pc \in {"api", "ret"} /\ invocations > 0)
        => (Len(cur) = 1 \/ RequestCost(cur) <= MAX_TOKENS_PER_REQUEST)

\* C8: in a client call whose remote raises only transient errors, attempt k
\* is preceded by k invocations and k RETRY_DELAY sleeps, and the call ends
\* after exactly MAX_RETRIES invocations and MAX_RETRIES - 1 sleeps by
\* returning None, not by raising.
C8_RetryCap ==
    /\ (pc = "api" /\ quotaSleeps = 0)
           => (attempt < MAX_RETRIES /\ invocations = attempt /\ retrySleeps = attempt)
    /\ (pc = "ret" /\ retKind \in {"exhausted", "loop_end"} /\ quotaSleeps = 0)
           => /\ retKind = "exhausted"
              /\ retval = RetNone
              /\ invocations = MAX_RETRIES
              /\ retrySleeps = MAX_RETRIES - 1

C8_Witness ==
    /\ pc = "ret"
    /\ retKind = "exhausted"
    /\ retval = RetNone
    /\ quotaSleeps = 0
    /\ invocations = MAX_RETRIES
    /\ stack = <<>>
    /\ Len(cur) = 2

\* C9: every batch create_batches returns is non-empty and either costs at
\* most MAX_TOKENS_PER_REQUEST or holds one unit, and every oversized unit is
\* a batch of its own.
C9_BatchBound ==
    bpc = "done"
        => /\ \A k \in 1..Len(batches) :
                  /\ batches[k] # <<>>
                  /\ \/ BatchCost(batches[k]) <= MAX_TOKENS_PER_REQUEST
                     \/ Len(batches[k]) = 1
           /\ \A i \in 1..Len(items) :
                  UnitCost(items[i]) > MAX_TOKENS_PER_REQUEST
                      => \E k \in 1..Len(batches) : batches[k] = <<items[i]>>

C9_Witness ==
    /\ bpc = "done"
    /\ \E k \in 1..Len(batches) :
           Len(batches[k]) = 1 /\ BatchCost(batches[k]) > MAX_TOKENS_PER_REQUEST
    /\ \E k \in 1..Len(batches) :
           Len(batches[k]) = 2 /\ BatchCost(batches[k]) = MAX_TOKENS_PER_REQUEST

\* C10: the batches create_batches returns, concatenated in order, are its
\* input list; a non-empty input gives at least one batch, an empty one none.
C10_BatchPartition ==
    bpc = "done"
        => /\ Flatten(batches) = items
           /\ (items # <<>> => Len(batches) >= 1)
           /\ (items = <<>> => batches = <<>>)

C10_Witness ==
    /\ bpc = "done"
    /\ proc = "excel"
    /\ Len(items) = 3
    /\ Len(batches) = 2

\* C11: an answer that is no JSON array of the requested length, a body that
\* is no JSON included, is split: no call on two or more texts returns the
\* empty strings of line 102.
C11_MalformedIsSplit ==
    (pc = "ret" /\ retKind = "degraded") => Len(cur) < 2

\* C15: a call on exactly one text never splits: no suspended (split) frame
\* holds fewer than two texts.
C15_SingletonFloor ==
    \A k \in 1..Len(stack) : Len(stack[k].texts) >= 2

\* C16: every cache entry (t, lang) -> v holds a string the remote returned
\* for t; the engine's own empty strings and fallbacks are never stored.
C16_CacheContent ==
    \A key \in DOMAIN cache : cache[key] \in {T(key[1]), U(key[1])}

\* a failed attempt that is not the last one: the loop goes on to the next
ErrorRetried == pc = "api" /\ pc' = "api" /\ invocations' = invocations + 1

\* the remote failed the first attempt with the quota signature and answered
\* the second; no split happened
QuotaThenSuccess ==
    /\ pc = "ret"
    /\ retKind = "success"
    /\ stack = <<>>
    /\ invocations = 2
    /\ lastError = QUOTA_EXHAUST_ERROR

\* C13: an exception on an attempt that is not the last is followed by one
\* RETRY_DELAY sleep and the next attempt, preceded by one
\* QUOTA_EXHAUST_ERROR_DELAY sleep exactly when the message carries the quota
\* signature; a quota error followed by a success gives one quota sleep in
\* the whole call.
C13_QuotaBackoff ==
    [][ /\ ErrorRetried =>
              /\ attempt' = attempt + 1
              /\ retrySleeps' = retrySleeps + 1
              /\ quotaSleeps' = quotaSleeps +
                     (IF lastError' = QUOTA_EXHAUST_ERROR THEN 1 ELSE 0)
        /\ QuotaThenSuccess' => (quotaSleeps' = 1 /\ retrySleeps' = 1) ]_vars

C13_Witness == QuotaThenSuccess /\ quotaSleeps = 1 /\ retrySleeps = 1

\* the texts of the sub-call a suspended frame is waiting for
HalfOf(frame) ==
    IF frame.at = "first" THEN FirstHalfTexts(frame.texts)
                          ELSE SecondHalfTexts(frame.texts)

\* every sub-call runs on the half its caller is waiting for, the first half
\* before the second, and the outermost call on the texts of translate_batch
SplitHalves ==
    /\ \A k \in 1..Len(stack) :
           /\ Len(stack[k].texts) >= 2 => Len(HalfOf(stack[k])) < Len(stack[k].texts)
           /\ (IF k = Len(stack) THEN cur ELSE stack[k + 1].texts) = HalfOf(stack[k])
    /\ stack # <<>> => stack[1].texts = uncached_texts

\* line 99 returns in this step
Concatenates ==
    /\ pc = "ret" /\ pc' = "ret"
    /\ stack # <<>> /\ stack[Len(stack)].at = "second"

\* C14: a request of two or more texts answered with an array of the wrong
\* length is served by a call on the first floor(n/2) texts, then a call on
\* the rest, and returns the first result followed by the second; when the
\* remote answers every request of two or more texts that way and every
\* request of one text with its translation, the client returns the
\* translation of the i-th text at position i.
C14_AdaptiveSplit ==
    [][ /\ SplitHalves'
        /\ Concatenates =>
               /\ cur' = stack[Len(stack)].texts
               /\ retval'.list = stack[Len(stack)].first_half.list \o retval.list
        /\ (pc' = "ret" /\ remoteSplits') => retval' = RetList(Tagged(cur')) ]_vars

C14_Witness ==
    /\ pc = "ret" /\ retKind = "concat" /\ stack = <<>>
    /\ remoteSplits
    /\ Len(cur) = 2 /\ cur[1] # cur[2]
    /\ retval = RetList(Tagged(cur))

\* the positions of texts whose key is absent from the cache, in order
MissIndices ==
    SelectSeq([i \in 1..Len(texts) |-> i],
              LAMBDA i : ~CacheHas(cache, texts[i], lang))

HitPositions ==
    { i \in 1..Len(texts) : \A k \in 1..Len(uncached_indices) : uncached_indices[k] # i }

\* C17: while the client runs the cache is the one the call started with;
\* the texts handed to the client are the cache misses in their order, no
\* requested text has its key in the cache, every hit slot holds the cached
\* string, also after the call, and a call of hits only makes no remote call.
C17_CachePartition ==
    /\ pc \in {"api", "ret"} =>
           /\ uncached_indices = MissIndices
           /\ uncached_texts = [k \in 1..Len(uncached_indices) |-> texts[uncached_indices[k]]]
           /\ (IF stack = <<>> THEN cur ELSE stack[1].texts) = uncached_texts
           /\ \A k \in 1..Len(cur) : ~CacheHas(cache, cur[k], lang)
    /\ pc \in {"api", "ret", "done"} /\ how # "empty" =>
           \A i \in HitPositions :
               /\ CacheHas(cache, texts[i], lang)
               /\ translations[i] = CacheGet(cache, texts[i], lang)
    /\ how = "cached" => ~remoteCalled /\ uncached_texts = <<>> /\ HitPositions = 1..Len(texts)

C17_Witness ==
    /\ pc = "done" /\ how = "success" /\ remoteCalled
    /\ Len(texts) = 2
    /\ uncached_indices = <<2>>
    /\ translations[1] = CacheGet(cache, texts[1], lang)
    /\ texts[1] # texts[2]

\* the costs of the units create_batches was given
ItemCosts == [i \in 1..Len(items) |-> UnitCost(items[i])]

\* one iteration of the for loop of create_batches happens in this step
PacksUnit == bpc = "loop" /\ bpc' = "loop" /\ pos' = pos + 1

\* every batch but the last could not take the first unit of the next one
GreedyMaximal ==
    \A k \in 1..(Len(batches) - 1) :
        BatchCost(batches[k]) + UnitCost(batches[k + 1][1]) > MAX_TOKENS_PER_REQUEST

\* C18: an iteration appends the unit to the current batch exactly when the
\* batch is empty or the running total plus the unit's cost is at most
\* MAX_TOKENS_PER_REQUEST, and otherwise closes the batch and starts a new one
\* with the unit; the running total is the cost of the current batch; units
\* of costs 399, 1, 399 pack as two batches, the first of two units; every
\* returned batch but the last is maximal.
C18_GreedyBoundary ==
    [][ /\ PacksUnit =>
              LET unit == items[pos + 1]
              IN  IF current_batch = <<>>
                     \/ current_tokens + UnitCost(unit) <= MAX_TOKENS_PER_REQUEST
                  THEN /\ current_batch' = Append(current_batch, unit)
                       /\ batches' = batches
                  ELSE /\ current_batch' = <<unit>>
                       /\ batches' = Append(batches, current_batch)
        /\ bpc' = "loop" => current_tokens' = BatchCost(current_batch)'
        /\ bpc' = "done" =>
              /\ GreedyMaximal'
              /\ ItemCosts' = <<399, 1, 399>> =>
                     batches' = << <<items'[1], items'[2]>>, <<items'[3]>> >> ]_vars

C18_Witness ==
    /\ bpc = "done"
    /\ ItemCosts = <<399, 1, 399>>
    /\ batches = << <<items[1], items[2]>>, <<items[3]>> >>
    /\ BatchCost(batches[1]) = MAX_TOKENS_PER_REQUEST

\* the text of a unit and what its processor's estimate_tokens gives for it
UnitText(u) == IF proc = "docx" THEN u[2] ELSE u

EstimateOfText(u) ==
    IF proc = "docx" THEN DocxEstimateTokens(UnitText(u))
                     ELSE ExcelEstimateTokens(UnitText(u))

\* C19: for every text create_batches is given, estimate_tokens(text) of its
\* processor times CHARS_PER_TOKEN is at least len(text).
C19_NeverUnderCounts ==
    \A i \in 1..Len(items) :
        EstimateOfText(items[i]) * CHARS_PER_TOKEN >= TextLen(UnitText(items[i]))

\* C19, amended: the cost create_batches uses for a text, times
\* CHARS_PER_TOKEN, is at least len(text) in both processors: the docx
\* estimate_tokens is len(text) / CHARS_PER_TOKEN rounded up, the excel one is
\* rounded down and applied to the text followed by the delimiter.
C19_BatchCostNeverUnderCounts ==
    \A i \in 1..Len(items) :
        LET text == UnitText(items[i])
            est == EstimateOfText(items[i])
        IN  /\ UnitCost(items[i]) * CHARS_PER_TOKEN >= TextLen(text)
            /\ proc = "docx" =>
                   /\ UnitCost(items[i]) = est
                   /\ (est - 1) * CHARS_PER_TOKEN < TextLen(text)
                   /\ TextLen(text) <= est * CHARS_PER_TOKEN
            /\ proc = "excel" =>
                   /\ est * CHARS_PER_TOKEN <= TextLen(text)
                   /\ TextLen(text) < (est + 1) * CHARS_PER_TOKEN
                   /\ UnitCost(items[i]) = est + 1

C19_Witness ==
    /\ proc = "excel" /\ bpc = "done"
    /\ \E i \in 1..Len(items) :
           /\ EstimateOfText(items[i]) * CHARS_PER_TOKEN < TextLen(items[i])
           /\ UnitCost(items[i]) * CHARS_PER_TOKEN >= TextLen(items[i])
           /\ TextLen(items[i]) > CHARS_PER_TOKEN

\* the keys of the texts the running request sends to the remote
RequestedKeys == { <<cur[k], lang>> : k \in 1..Len(cur) }

\* C12: no text whose (normalized text, language) key was stored by any
\* translate_batch call of the process is sent to the remote again, whichever
\* engine the later call belongs to.
C12_ProcessWideCache ==
    pc = "api" => RequestedKeys \cap stored = {}

\* a new engine is built in this step
NewEngine == pc \in {"done", "raised"} /\ pc' = "idle"

\* C12, amended: the cache belongs to one engine.  No text whose key is in the
\* engine's cache is sent to the remote; as long as the engine lives its
\* entries are neither evicted nor changed; every entry was stored by a
\* translate_batch call of the process; a new engine starts with an empty
\* cache, whatever earlier engines stored.
C12_EngineCache ==
    [][ /\ pc' = "api" => RequestedKeys' \cap DOMAIN cache' = {}
        /\ DOMAIN cache' \subseteq stored'
        /\ stored \subseteq stored'
        /\ IF NewEngine
           THEN cache' = EmptyCache
           ELSE \A key \in DOMAIN cache :
                    key \in DOMAIN cache' /\ cache'[key] = cache[key] ]_vars

C12_Witness ==
    /\ pc = "done" /\ how = "cached" /\ input # <<>>
    /\ \A i \in 1..Len(texts) : <<texts[i], lang>> \in DOMAIN cache
    /\ stored # DOMAIN cache

\* C20: when _process_cell_batches returns, translate_batch has returned one
\* string per collected cell, cell_positions[i] holds the string returned for
\* cells_to_process[i] and was assigned exactly once, no other cell was
\* assigned, and the count returned is len(cells_to_process).
C20_PositionalReinsertion ==
    cpc = "done" =>
        /\ Len(returned) = Len(cells_to_process)
        /\ cells_processed = Len(cells_to_process)
        /\ \A i \in 1..Len(cells_to_process) :
               /\ returned[i] \in TranslationsOf(cells_to_process[i])
               /\ sheet[cell_positions[i]] = returned[i]
               /\ writes[cell_positions[i]] = 1
        /\ \A p \in Grid :
               (\A i \in 1..Len(cell_positions) : cell_positions[i] # p)
                   => writes[p] = 0 /\ sheet[p] = <<>>

C20_Witness ==
    /\ cpc = "done"
    /\ Len(cells_to_process) = 3
    /\ Len(cell_batches) = 2 /\ Len(cell_batches[1]) = 2
    /\ \A i, j \in 1..3 : i # j => returned[i] # returned[j]
    /\ \A i \in 1..3 : sheet[cell_positions[i]] = returned[i]

====
